---------------------------- MODULE Spec2Model ----------------------------
(***************************************************************************)
(* A model of edgeefy's Canny edge detector (src/canny.go, the latest      *)
(* snapshot, lines 287-705): the border-aware sampler, the separable blur, *)
(* the Sobel gradient, non-maximum suppression, the double threshold and   *)
(* the hysteresis pass (edgeTracking).                                     *)
(*                                                                         *)
(* An image ([][]GrayPixel) is a function  0..H-1 -> (0..W-1 -> GrayPixel) *)
(* indexed pixels[y][x] as in the source; a GrayPixel is [y |-> gray,      *)
(* a |-> alpha], both uint8.  A point (image.Point{X, Y}) is <<x, y>>.     *)
(* A direction value (float64 degrees) is an integer number of tenths of   *)
(* a degree, so that the bin limits 22.5 and 67.5 are 225 and 675.         *)
(***************************************************************************)
EXTENDS Integers, Sequences, FiniteSets, TLC

VARIABLES
    pc,          \* where the program is
    input,       \* the image the caller handed in (never written)
    prev,        \* the image passed to the last call, as that call left it
    pixels,      \* the caller's variable `pixels`
    directions,  \* the direction field ([][]float64)
    strong,      \* mapset.Set of strong points
    weak,        \* mapset.Set of weak points
    weakIter,    \* the points weak.Iterator() has not delivered yet
    samples,     \* what the sampler returned (mat.VecDense / mat.Dense values)
    call,        \* the arguments of the call under way
    conv         \* how this build converts an out-of-range float64 to uint8

vars == <<pc, input, prev, pixels, directions, strong, weak, weakIter,
          samples, call, conv>>

---------------------------------------------------------------------------
(* Bounds of the model *)

\* largest image height and width
MaxSide == 3
\* largest number of pixels that differ from the image's background
MaxLit == 3

\* The largest kernel size the Kernel Builder is asked for.
MaxKernelSize == 7

---------------------------------------------------------------------------
(* Values *)

HORIZONTAL == "HORIZONTAL"
VERTICAL == "VERTICAL"

GrayPixel(gray, alpha) == [y |-> gray, a |-> alpha]

NoImage == <<>>

Height(p) == Cardinality(DOMAIN p)

Width(p) == Cardinality(DOMAIN p[0])

Points(h, w) == (0..(w - 1)) \X (0..(h - 1))

\* The image of h rows and w columns whose pixels are bg, except those of
\* the points in DOMAIN lit, all with opacity alpha.
MakeImage(h, w, bg, alpha, lit) ==
    [r \in 0..(h - 1) |->
        [c \in 0..(w - 1) |->
            GrayPixel(IF <<c, r>> \in DOMAIN lit THEN lit[<<c, r>>] ELSE bg,
                      alpha)]]

\* v is an image of at most MaxSide rows and columns with a background of bgs,
\* an opacity of alphas and at most MaxLit pixels set to a value of levels.
DrawImage(v, bgs, levels, alphas) ==
    \E h \in 1..MaxSide, w \in 1..MaxSide, bg \in bgs, alpha \in alphas :
        \E S \in SUBSET Points(h, w) :
            /\ Cardinality(S) <= MaxLit
            /\ \E lit \in [S -> levels] : v = MakeImage(h, w, bg, alpha, lit)

---------------------------------------------------------------------------
(* abs, canny.go 700-706 *)

abs(x) == IF x < 0 THEN -x ELSE x

(***************************************************************************)
(* The Border-Aware Sampler.  The index the sampler reads for requested    *)
(* coordinate i, with the centre at pos and n the length of the axis       *)
(* (canny.go 590-597, 606-613, 544-551, 553-560).                          *)
(***************************************************************************)
borderIndex(i, pos, n) ==
    IF i < 0 THEN pos + abs(i)
    ELSE IF i >= n THEN pos - (i - n + 1)
    ELSE i

\* The requested coordinates minX..maxX of a sampler call: canny.go 582-587.
requested(pos, length) == (pos - (length \div 2))..(pos + (length \div 2))

\* Whether getPixelVector returns: the length is odd (576-578) and no read
\* is outside the slice (a Go index-out-of-range panic otherwise).
getPixelVectorReturns(p, posY, posX, length, dir) ==
    /\ length % 2 # 0
    /\ \A i \in requested(IF dir = HORIZONTAL THEN posX ELSE posY, length) :
          IF dir = HORIZONTAL
          THEN borderIndex(i, posX, Width(p)) \in 0..(Width(p) - 1)
          ELSE borderIndex(i, posY, Height(p)) \in 0..(Height(p) - 1)

\* getPixelVector, canny.go 575-619: the vector's values, At(0) .. At(length-1).
getPixelVector(p, posY, posX, length, dir) ==
    [k \in 0..(length - 1) |->
        IF dir = HORIZONTAL
        THEN p[posY][borderIndex(posX - (length \div 2) + k, posX, Width(p))].y
        ELSE p[borderIndex(posY - (length \div 2) + k, posY, Height(p))][posX].y]

\* Whether getSorroundingPixelMatrix returns: canny.go 527-529 and the reads
\* of line 562.
getSorroundingPixelMatrixReturns(p, posY, posX, length) ==
    /\ length % 2 # 0
    /\ \A i \in requested(posY, length) :
          borderIndex(i, posY, Height(p)) \in 0..(Height(p) - 1)
    /\ \A j \in requested(posX, length) :
          borderIndex(j, posX, Width(p)) \in 0..(Width(p) - 1)

\* getSorroundingPixelMatrix, canny.go 526-568: At(r, c) of the matrix.
getSorroundingPixelMatrix(p, posY, posX, length) ==
    [r \in 0..(length - 1) |->
        [c \in 0..(length - 1) |->
            p[borderIndex(posY - (length \div 2) + r, posY, Height(p))]
             [borderIndex(posX - (length \div 2) + c, posX, Width(p))].y]]

---------------------------------------------------------------------------
(* The sampler called on its own *)

SamplerLengths == {1, 2, 3, 5}


InitSampler ==
    /\ pc = "start"
    /\ DrawImage(input, {0}, {100, 255}, {255})
    /\ pixels = input
    /\ prev = NoImage
    /\ directions = NoImage
    /\ strong = {}
    /\ weak = {}
    /\ weakIter = {}
    /\ samples = <<>>
    /\ \E pt \in Points(Height(input), Width(input)), n \in SamplerLengths,
          d \in {HORIZONTAL, VERTICAL} :
          call = [posX |-> pt[1], posY |-> pt[2], length |-> n, dir |-> d]
    /\ conv = "wrap"

CallGetPixelVector ==
    /\ pc = "start"
    /\ IF getPixelVectorReturns(pixels, call.posY, call.posX, call.length, call.dir)
       THEN /\ samples' = getPixelVector(pixels, call.posY, call.posX,
                                         call.length, call.dir)
            /\ pc' = "vector"
       ELSE /\ samples' = <<>>
            /\ pc' = "panic"
    /\ UNCHANGED <<input, prev, pixels, directions, strong, weak, weakIter,
                   call, conv>>

CallGetSorroundingPixelMatrix ==
    /\ pc = "start"
    /\ IF getSorroundingPixelMatrixReturns(pixels, call.posY, call.posX, call.length)
       THEN /\ samples' = getSorroundingPixelMatrix(pixels, call.posY, call.posX,
                                                    call.length)
            /\ pc' = "matrix"
       ELSE /\ samples' = <<>>
            /\ pc' = "panic"
    /\ UNCHANGED <<input, prev, pixels, directions, strong, weak, weakIter,
                   call, conv>>

NextSampler == CallGetPixelVector \/ CallGetSorroundingPixelMatrix

SpecSampler == InitSampler /\ [][NextSampler]_vars

\* The in-bounds coordinate at mirror offset d from the border that
\* coordinate i lies d positions beyond, on an axis of length n.
MirrorOf(i, n) ==
    IF i < 0 THEN -i
    ELSE IF i >= n THEN (n - 1) - (i - (n - 1))
    ELSE i

\* C1: every requested coordinate that lies d >= 1 positions beyond a border
\* is answered by getPixelVector and by getSorroundingPixelMatrix with the
\* in-bounds sample at mirror offset d from that border, wherever the centre
\* is (column -d yields column d, column W-1+d yields column W-1-d, same for
\* rows).
C1_MirrorRule ==
    LET h == Height(pixels)
        w == Width(pixels)
        pad == call.length \div 2
        row(k) == call.posY - pad + k
        col(k) == call.posX - pad + k
    IN  /\ (pc = "vector" /\ call.dir = HORIZONTAL) =>
            \A k \in 0..(call.length - 1) :
                MirrorOf(col(k), w) \in 0..(w - 1) =>
                    samples[k] = pixels[call.posY][MirrorOf(col(k), w)].y
        /\ (pc = "vector" /\ call.dir = VERTICAL) =>
            \A k \in 0..(call.length - 1) :
                MirrorOf(row(k), h) \in 0..(h - 1) =>
                    samples[k] = pixels[MirrorOf(row(k), h)][call.posX].y
        /\ pc = "matrix" =>
            \A r \in 0..(call.length - 1), c \in 0..(call.length - 1) :
                (MirrorOf(row(r), h) \in 0..(h - 1) /\ MirrorOf(col(c), w) \in 0..(w - 1)) =>
                    samples[r][c] = pixels[MirrorOf(row(r), h)][MirrorOf(col(c), w)].y

---------------------------------------------------------------------------
(* Arithmetic of the float64 code, exact on the values the model uses *)

RECURSIVE sqrtBetween(_, _, _)
\* The largest r in lo..hi with r * r <= n.
sqrtBetween(n, lo, hi) ==
    IF lo = hi THEN lo
    ELSE LET mid == (lo + hi + 1) \div 2
         IN  IF mid * mid <= n THEN sqrtBetween(n, mid, hi)
             ELSE sqrtBetween(n, lo, mid - 1)

\* The integer part of math.Sqrt(n), n < 2^32.
floorSqrt(n) == sqrtBetween(n, 0, 65535)

\* uint8(f) for a float64 f >= 0 whose integer part is v.  The Go
\* specification leaves the conversion of a value that uint8 cannot
\* represent to the implementation: conv is what this build does with it.
toUint8(v) ==
    IF v <= 255 THEN v
    ELSE IF conv = "wrap" THEN v % 256
    ELSE 255

Conversions == {"wrap", "saturate"}

RECURSIVE sumTo(_, _)
\* v[0] + ... + v[n]
sumTo(v, n) == IF n < 0 THEN 0 ELSE v[n] + sumTo(v, n - 1)

RECURSIVE binomial(_, _)
\* combin.Binomial(n, k)
binomial(n, k) ==
    IF k = 0 \/ k = n THEN 1
    ELSE binomial(n - 1, k - 1) + binomial(n - 1, k)

---------------------------------------------------------------------------
(* The Kernel Builder *)

\* (a variant that returns the row after the one asked for)
getPascalTriangleRowBelow(index) ==
    [i \in 0..(index + 1) |-> binomial(index + 1, i)]

\* getPascalTriangleRow, canny.go 659-669
getPascalTriangleRow(index) == [i \in 0..index |-> binomial(index, i)]

\* normalizeVec, canny.go 672-682.  The sum of a row of Pascal's triangle is
\* a power of two, so 1/sum and every weight v[i]/sum are exact float64
\* values: the kernel is kept as its numerators w and the denominator den.
normalizeVec(v) == [w |-> v, den |-> sumTo(v, Cardinality(DOMAIN v) - 1)]

\* innerProduct, canny.go 624-635: the numerator of the sum over kernel.den.
innerProduct(vec, kernel) ==
    sumTo([i \in DOMAIN vec |-> vec[i] * kernel.w[i]], Cardinality(DOMAIN vec) - 1)

---------------------------------------------------------------------------
(* The Kernel Builder and the inner product, as gaussianBlur uses them on one
   vector of samples, canny.go 460-461 and 469 *)

InitKernel ==
    /\ pc = "start"
    /\ input = NoImage
    /\ pixels = NoImage
    /\ prev = NoImage
    /\ directions = NoImage
    /\ strong = {}
    /\ weak = {}
    /\ weakIter = {}
    /\ samples = <<>>
    /\ \E L \in { n \in 1..MaxKernelSize : n % 2 = 1 } :
          \E vec \in [0..(L - 1) -> {0, 255}] :
              call = [kernelSize |-> L, vec |-> vec]
    /\ conv = "wrap"

\* kernel := getPascalTriangleRow(kernelSize - 1); kernel = normalizeVec(kernel)
CallKernelBuilder ==
    /\ pc = "start"
    /\ samples' = [kernel |-> normalizeVec(getPascalTriangleRow(call.kernelSize - 1))]
    /\ pc' = "kernel"
    /\ UNCHANGED <<input, prev, pixels, directions, strong, weak, weakIter,
                   call, conv>>

\* innerProduct(vec, kernel), which panics on vectors of unequal length
CallInnerProduct ==
    /\ pc = "kernel"
    /\ IF DOMAIN call.vec = DOMAIN samples.kernel.w
       THEN /\ samples' = [kernel |-> samples.kernel,
                           sum |-> innerProduct(call.vec, samples.kernel)]
            /\ pc' = "product"
       ELSE /\ samples' = samples
            /\ pc' = "panic"
    /\ UNCHANGED <<input, prev, pixels, directions, strong, weak, weakIter,
                   call, conv>>

NextKernel == CallKernelBuilder \/ CallInnerProduct

SpecKernel == InitKernel /\ [][NextKernel]_vars

RECURSIVE factorial(_)
\* n!
factorial(n) == IF n = 0 THEN 1 ELSE n * factorial(n - 1)

\* C(n, k) = n! / (k! (n-k)!)
Choose(n, k) == factorial(n) \div (factorial(k) * factorial(n - k))

RECURSIVE pow2(_)
\* 2^n
pow2(n) == IF n = 0 THEN 1 ELSE 2 * pow2(n - 1)

\* C17: Kernel Builder: for every odd L >= 1 the kernel built by
\* getPascalTriangleRow(L-1) followed by normalizeVec has exactly L weights,
\* weight i equals C(L-1, i) / 2^(L-1), and the weights sum to exactly 1.
C17_KernelWeights ==
    pc \in {"kernel", "product", "panic"} =>
        LET L == call.kernelSize
            kernel == samples.kernel
        IN  /\ DOMAIN kernel.w = 0..(L - 1)
            /\ \A i \in DOMAIN kernel.w :
                  kernel.w[i] * pow2(L - 1) = Choose(L - 1, i) * kernel.den
            /\ sumTo(kernel.w, L - 1) = kernel.den

\* C17's case: the kernel of the largest size has been built and used.
C17_Witness ==
    /\ pc = "product"
    /\ call.kernelSize = 7
    /\ samples.kernel.w[3] = 20 /\ samples.kernel.den = 64

---------------------------------------------------------------------------
(* The Separable Blur Stage *)

\* Whether gaussianBlur returns: canny.go 457-459 and the sampler's panics.
gaussianBlurReturns(p, kernelSize) ==
    /\ kernelSize % 2 # 0
    /\ \A r \in DOMAIN p : \A c \in DOMAIN p[r] :
          /\ getPixelVectorReturns(p, r, c, kernelSize, VERTICAL)
          /\ getPixelVectorReturns(p, r, c, kernelSize, HORIZONTAL)

\* The intensity gaussianBlur gives pixel (c, r): canny.go 467-471.
\* sqrt(v*v + h*h) with v = nv/den and h = nh/den has the integer part
\* floorSqrt(nv*nv + nh*nh) \div den.
blurredIntensity(p, r, c, kernel) ==
    LET verticalSum == innerProduct(
                          getPixelVector(p, r, c, Cardinality(DOMAIN kernel.w), VERTICAL),
                          kernel)
        horizontalSum == innerProduct(
                          getPixelVector(p, r, c, Cardinality(DOMAIN kernel.w), HORIZONTAL),
                          kernel)
    IN  toUint8(floorSqrt(verticalSum * verticalSum + horizontalSum * horizontalSum)
                   \div kernel.den)

\* gaussianBlur, canny.go 456-478
gaussianBlur(p, kernelSize) ==
    LET kernel == normalizeVec(getPascalTriangleRow(kernelSize - 1))
    IN  [r \in DOMAIN p |->
            [c \in DOMAIN p[r] |-> GrayPixel(blurredIntensity(p, r, c, kernel), 255)]]

---------------------------------------------------------------------------
(* The Gradient Stage *)

\* mat.NewDense(3, 3, SOBEL_X) and mat.NewDense(3, 3, SOBEL_Y), canny.go
\* 305-306 and 422-423, as At(r, c)
SOBEL_X == [r \in 0..2 |-> [c \in 0..2 |-> <<1, 0, -1, 2, 0, -2, 1, 0, -1>>[3 * r + c + 1]]]

SOBEL_Y == [r \in 0..2 |-> [c \in 0..2 |-> <<1, 2, 1, 0, 0, 0, -1, -2, -1>>[3 * r + c + 1]]]

\* convolve, canny.go 639-656, on two 3 x 3 matrices
convolve(m1, m2) ==
    sumTo([k \in 0..8 |-> m1[k \div 3][k % 3] * m2[k \div 3][k % 3]], 8)

\* (a variant that gives the angle of the point (gx, gy) on the whole circle,
\* as math.Atan2 does, with the same resolution)
atanDegreesOfQuadrant(gy, gx) ==
    LET ay == abs(gy)
        ax == abs(gx)
        sign == IF (gy < 0) = (gx < 0) THEN 1 ELSE -1
        size == IF (ay + ax) * (ay + ax) < 2 * ax * ax THEN 112
                ELSE IF ay < ax THEN 337
                ELSE IF ay = ax THEN 450
                ELSE IF (ay - ax) * (ay - ax) < 2 * ax * ax THEN 562
                ELSE 787
    IN  IF gx > 0 THEN sign * size
        ELSE IF gy > 0 THEN sign * size + 1800
        ELSE sign * size - 1800

\* math.Atan(gy / gx) * (180 / math.Pi) for gx # 0 and gy # 0, in tenths of
\* a degree, to the resolution the five direction bins and the sign need:
\* the value returned stands for every angle of its range.
\*     |angle| in (0, 22.5)  : 112      |angle| = 45         : 450
\*     |angle| in (22.5, 45) : 337      |angle| in (45, 67.5): 562
\*     |angle| in (67.5, 90) : 787
\* tan 22.5 = sqrt(2) - 1 and tan 67.5 = sqrt(2) + 1 are irrational, so the
\* angle of integers gy, gx is never on a bin limit.
atanDegrees(gy, gx) ==
    LET ay == abs(gy)
        ax == abs(gx)
        sign == IF (gy < 0) = (gx < 0) THEN 1 ELSE -1
        size == IF (ay + ax) * (ay + ax) < 2 * ax * ax THEN 112
                ELSE IF ay < ax THEN 337
                ELSE IF ay = ax THEN 450
                ELSE IF (ay - ax) * (ay - ax) < 2 * ax * ax THEN 562
                ELSE 787
    IN  sign * size

\* Whether sobel returns: the reads of getSorroundingPixelMatrix, 431.
sobelReturns(p) ==
    \A r \in DOMAIN p : \A c \in DOMAIN p[r] :
        getSorroundingPixelMatrixReturns(p, r, c, 3)

\* (a variant of the magnitude that takes the x-component alone)
sobelMagnitudeOfXOnly(p, r, c) ==
    toUint8(abs(convolve(getSorroundingPixelMatrix(p, r, c, 3), SOBEL_X)))

\* The magnitude sobel stores at (c, r): canny.go 431-437.
sobelMagnitude(p, r, c) ==
    LET imagePane == getSorroundingPixelMatrix(p, r, c, 3)
        sobelRes_X == convolve(imagePane, SOBEL_X)
        sobelRes_Y == convolve(imagePane, SOBEL_Y)
    IN  toUint8(floorSqrt(sobelRes_X * sobelRes_X + sobelRes_Y * sobelRes_Y))

\* The direction sobel stores at (c, r): canny.go 438-445.
sobelAngle(p, r, c) ==
    LET imagePane == getSorroundingPixelMatrix(p, r, c, 3)
        sobelRes_X == convolve(imagePane, SOBEL_X)
        sobelRes_Y == convolve(imagePane, SOBEL_Y)
    IN  IF sobelRes_X = 0 \/ sobelRes_Y = 0 THEN 0
        ELSE atanDegrees(sobelRes_Y, sobelRes_X)

\* (a variant of sobel that hands each pixel's opacity on)
sobelKeepingOpacity(p) ==
    [result |-> [r \in DOMAIN p |->
                    [c \in DOMAIN p[r] |->
                        GrayPixel(sobelMagnitude(p, r, c), p[r][c].a)]],
     directions |-> [r \in DOMAIN p |-> [c \in DOMAIN p[r] |-> sobelAngle(p, r, c)]]]

\* sobel, canny.go 418-452: the magnitude image and the direction field
sobel(p) ==
    [result |-> [r \in DOMAIN p |->
                    [c \in DOMAIN p[r] |-> GrayPixel(sobelMagnitude(p, r, c), 255)]],
     directions |-> [r \in DOMAIN p |-> [c \in DOMAIN p[r] |-> sobelAngle(p, r, c)]]]

---------------------------------------------------------------------------
(* gaussianBlur called on its own *)

KernelSizes == {1, 2, 3, 5}


InitBlur ==
    /\ pc = "start"
    /\ DrawImage(input, {0, 100, 200}, {255}, {255, 128})
    /\ pixels = input
    /\ prev = NoImage
    /\ directions = NoImage
    /\ strong = {}
    /\ weak = {}
    /\ weakIter = {}
    /\ samples = <<>>
    /\ \E k \in KernelSizes : call = [blur |-> TRUE, kernelSize |-> k]
    /\ conv \in Conversions

\* if blur { pixels = gaussianBlur(pixels, kernelSize) }, canny.go 309-311
CallGaussianBlur ==
    /\ pc = "start"
    /\ call.blur
    /\ prev' = pixels
    /\ IF gaussianBlurReturns(pixels, call.kernelSize)
       THEN /\ pixels' = gaussianBlur(pixels, call.kernelSize)
            /\ pc' = "blurred"
       ELSE /\ pixels' = pixels
            /\ pc' = "panic"
    /\ UNCHANGED <<input, directions, strong, weak, weakIter, samples, call, conv>>

NextBlur == CallGaussianBlur

SpecBlur == InitBlur /\ [][NextBlur]_vars

---------------------------------------------------------------------------
(* sobel called on its own *)


InitSobel ==
    /\ pc = "start"
    /\ DrawImage(input, {0, 100}, {255}, {255, 128})
    /\ pixels = input
    /\ prev = NoImage
    /\ directions = NoImage
    /\ strong = {}
    /\ weak = {}
    /\ weakIter = {}
    /\ samples = <<>>
    /\ call = [blur |-> FALSE]
    /\ conv \in Conversions

\* (a variant of the call that does not wait for the blur)
CallSobelFirst ==
    /\ pc = "start"
    /\ prev' = pixels
    /\ IF sobelReturns(pixels)
       THEN /\ pixels' = sobel(pixels).result
            /\ directions' = sobel(pixels).directions
            /\ pc' = "sobel"
       ELSE /\ UNCHANGED <<pixels, directions>>
            /\ pc' = "panic"
    /\ UNCHANGED <<input, strong, weak, weakIter, samples, call, conv>>

\* pixels, angles := sobel(pixels), as in canny.go 312, reached after the
\* blur or, without the blur flag, at once
CallSobel ==
    /\ pc = "blurred" \/ (pc = "start" /\ ~call.blur)
    /\ prev' = pixels
    /\ IF sobelReturns(pixels)
       THEN /\ pixels' = sobel(pixels).result
            /\ directions' = sobel(pixels).directions
            /\ pc' = "sobel"
       ELSE /\ UNCHANGED <<pixels, directions>>
            /\ pc' = "panic"
    /\ UNCHANGED <<input, strong, weak, weakIter, samples, call, conv>>

NextSobel == CallSobel

SpecSobel == InitSobel /\ [][NextSobel]_vars

\* Whether every pixel of image p has intensity c.
IsFlat(p, c) == \A r \in DOMAIN p : \A x \in DOMAIN p[r] : p[r][x].y = c

\* C5: blur is the identity on flat images: for an image whose pixels all
\* have the same intensity c and every odd kernel size, gaussianBlur returns
\* an image in which every pixel again has intensity c, within integer
\* rounding (one grey level).
C5_BlurFlatIdentity ==
    pc = "blurred" =>
        \A c \in 0..255 :
            IsFlat(prev, c) =>
                \A r \in DOMAIN pixels : \A x \in DOMAIN pixels[r] :
                    abs(pixels[r][x].y - c) <= 1

\* C7: intensities are clamped, not wrapped: the magnitude the Gradient Stage
\* stores is min(255, floor(sqrt(Gx^2 + Gy^2))); when the square root
\* exceeds 255 the stored intensity is 255, not the value modulo 256.
C7_MagnitudeClamped ==
    pc = "sobel" =>
        \A r \in DOMAIN pixels : \A x \in DOMAIN pixels[r] :
            LET pane == getSorroundingPixelMatrix(prev, r, x, 3)
                gx == convolve(pane, SOBEL_X)
                gy == convolve(pane, SOBEL_Y)
                root == floorSqrt(gx * gx + gy * gy)
            IN  pixels[r][x].y = IF root > 255 THEN 255 ELSE root

---------------------------------------------------------------------------
(* The Non-Maximum Suppression Stage *)

\* (a variant of the range check that leaves out the two end values)
directionInRangeOpen(dirVal) == dirVal > -900 /\ dirVal < 900

\* The range check of getPixelInGradientDirection, canny.go 489-511: a value
\* outside [-90, 90] reaches the panic of line 510.
directionInRange(dirVal) == dirVal >= -900 /\ dirVal <= 900

\* The two positions of the five cases, canny.go 489-508, before the border
\* is looked at.
gradientLine(dirVal, x, y) ==
    IF dirVal >= -900 /\ dirVal < -675
        THEN [pY |-> y - 1, pX |-> x, qY |-> y + 1, qX |-> x]
    ELSE IF dirVal >= -675 /\ dirVal < -225
        THEN [pY |-> y - 1, pX |-> x + 1, qY |-> y + 1, qX |-> x - 1]
    ELSE IF dirVal >= -225 /\ dirVal < 225
        THEN [pY |-> y, pX |-> x + 1, qY |-> y, qX |-> x - 1]
    ELSE IF dirVal >= 225 /\ dirVal < 675
        THEN [pY |-> y + 1, pX |-> x + 1, qY |-> y - 1, qX |-> x - 1]
    ELSE [pY |-> y + 1, pX |-> x, qY |-> y - 1, qX |-> x]

\* canny.go 513-516: a coordinate outside the image becomes the centre's.
insideOr(v, centre, n) == IF v < 0 \/ v >= n THEN centre ELSE v

\* (a variant that sends a neighbour outside the image to the centre itself)
gradientPointsBothToCentre(p, d, x, y) ==
    LET l == gradientLine(d[y][x], x, y)
        pOut == l.pY < 0 \/ l.pY >= Height(p) \/ l.pX < 0 \/ l.pX >= Width(p)
        qOut == l.qY < 0 \/ l.qY >= Height(p) \/ l.qX < 0 \/ l.qX >= Width(p)
    IN  [pY |-> IF pOut THEN y ELSE l.pY, pX |-> IF pOut THEN x ELSE l.pX,
         qY |-> IF qOut THEN y ELSE l.qY, qX |-> IF qOut THEN x ELSE l.qX]

\* The positions getPixelInGradientDirection reads at lines 518-519.
gradientPoints(p, d, x, y) ==
    LET l == gradientLine(d[y][x], x, y)
    IN  [pY |-> insideOr(l.pY, y, Height(p)), pX |-> insideOr(l.pX, x, Width(p)),
         qY |-> insideOr(l.qY, y, Height(p)), qX |-> insideOr(l.qX, x, Width(p))]

\* getPixelInGradientDirection, canny.go 482-521
getPixelInGradientDirection(p, d, x, y) ==
    LET at == gradientPoints(p, d, x, y)
    IN  [p |-> p[at.pY][at.pX], q |-> p[at.qY][at.qX]]

\* Whether nonMaximumSuppression returns: the dimensions match (394-396) and
\* every direction it reads is in range (510).
nonMaximumSuppressionReturns(p, d) ==
    /\ Height(p) = Height(d)
    /\ Width(p) = Width(d)
    /\ \A r \in DOMAIN p : \A c \in DOMAIN p[0] : directionInRange(d[r][c])

\* (variants of the test: the comparison turned round, and ties suppressed)
suppressedIfSmaller(pp, q, r) == (pp.y < r.y) \/ (q.y < r.y)

suppressedOnTie(pp, q, r) == (pp.y >= r.y) \/ (q.y >= r.y)

\* The test of canny.go 404
suppressed(pp, q, r) == (pp.y > r.y) \/ (q.y > r.y)

\* nonMaximumSuppression, canny.go 392-414
nonMaximumSuppression(p, d) ==
    [r \in DOMAIN p |->
        [c \in DOMAIN p[0] |->
            LET n == getPixelInGradientDirection(p, d, c, r)
            IN  IF suppressed(n.p, n.q, p[r][c]) THEN GrayPixel(0, 255)
                ELSE p[r][c]]]

---------------------------------------------------------------------------
(* Direction fields for the calls of the NMS stage on its own *)

\* The limits of the five bins, their neighbours, and two values out of range
Angles == {-901, -900, -676, -675, -226, -225, 0, 224, 225, 674, 675, 900, 901}

UniformField(h, w, a) == [r \in 0..(h - 1) |-> [c \in 0..(w - 1) |-> a]]

CheckerField(h, w, a, b) ==
    [r \in 0..(h - 1) |-> [c \in 0..(w - 1) |-> IF (r + c) % 2 = 0 THEN a ELSE b]]

DirectionFields(h, w) ==
    { UniformField(h, w, a) : a \in Angles }
    \cup { CheckerField(h, w, t[1], t[2]) :
             t \in { <<0, 900>>, <<450, -450>>, <<-900, 450>>, <<-450, 0>> } }
    \cup { UniformField(h + 1, w, 0), UniformField(h, w + 1, 0) }


---------------------------------------------------------------------------
(* getPixelInGradientDirection called on its own *)

\* The h x w image whose pixels all differ: pixel (x, y) has intensity
\* k + y * w + x.
RampImage(h, w, k) ==
    [r \in 0..(h - 1) |-> [c \in 0..(w - 1) |-> GrayPixel(k + r * w + c, 255)]]

InitNeighbours ==
    /\ pc = "start"
    /\ \E h \in 1..MaxSide, w \in 1..MaxSide, k \in {0, 100} :
          input = RampImage(h, w, k)
    /\ pixels = input
    /\ prev = NoImage
    /\ directions \in { UniformField(Height(input), Width(input), a) : a \in Angles }
    /\ strong = {}
    /\ weak = {}
    /\ weakIter = {}
    /\ samples = <<>>
    /\ \E pt \in Points(Height(input), Width(input)) :
          call = [x |-> pt[1], y |-> pt[2]]
    /\ conv = "wrap"

CallGetPixelInGradientDirection ==
    /\ pc = "start"
    /\ IF directionInRange(directions[call.y][call.x])
       THEN /\ samples' = getPixelInGradientDirection(pixels, directions, call.x, call.y)
            /\ pc' = "neighbours"
       ELSE /\ samples' = <<>>
            /\ pc' = "panic"
    /\ UNCHANGED <<input, prev, pixels, directions, strong, weak, weakIter,
                   call, conv>>

NextNeighbours == CallGetPixelInGradientDirection

SpecNeighbours == InitNeighbours /\ [][NextNeighbours]_vars

---------------------------------------------------------------------------
(* nonMaximumSuppression called on its own, once and then on its own output *)

InitNMS ==
    /\ pc = "sobel"
    /\ DrawImage(input, {0, 100}, {255}, {128})
    /\ pixels = input
    /\ prev = NoImage
    /\ directions \in DirectionFields(Height(input), Width(input))
    /\ strong = {}
    /\ weak = {}
    /\ weakIter = {}
    /\ samples = <<>>
    /\ call = <<>>
    /\ conv = "wrap"

\* (a variant of the call in which the stage writes its result into the
\* image it was given)
CallNonMaximumSuppressionInPlace ==
    /\ pc = "sobel"
    /\ IF nonMaximumSuppressionReturns(pixels, directions)
       THEN /\ pixels' = nonMaximumSuppression(pixels, directions)
            /\ pc' = "nms"
       ELSE /\ pixels' = pixels
            /\ pc' = "panic"
    /\ prev' = pixels'
    /\ UNCHANGED <<input, directions, strong, weak, weakIter, samples, call, conv>>

\* pixels = nonMaximumSuppression(pixels, angles), as in canny.go 313
CallNonMaximumSuppression ==
    /\ pc = "sobel"
    /\ prev' = pixels
    /\ IF nonMaximumSuppressionReturns(pixels, directions)
       THEN /\ pixels' = nonMaximumSuppression(pixels, directions)
            /\ pc' = "nms"
       ELSE /\ pixels' = pixels
            /\ pc' = "panic"
    /\ UNCHANGED <<input, directions, strong, weak, weakIter, samples, call, conv>>

\* the same call on the image the first one returned
CallNonMaximumSuppressionAgain ==
    /\ pc = "nms"
    /\ prev' = pixels
    /\ pixels' = nonMaximumSuppression(pixels, directions)
    /\ pc' = "nms2"
    /\ UNCHANGED <<input, directions, strong, weak, weakIter, samples, call, conv>>

NextNMS == CallNonMaximumSuppression \/ CallNonMaximumSuppressionAgain

SpecNMS == InitNMS /\ [][NextNMS]_vars

---------------------------------------------------------------------------
(* Properties of the NMS stage *)

\* The neighbour pair of each direction bin as the specification tabulates
\* it, as offsets <<dx, dy>> from the centre; a is in tenths of a degree.
BinOffsets(a) ==
    IF a < -675 THEN << <<0, -1>>, <<0, 1>> >>
    ELSE IF a < -225 THEN << <<1, -1>>, <<-1, 1>> >>
    ELSE IF a < 225 THEN << <<1, 0>>, <<-1, 0>> >>
    ELSE IF a < 675 THEN << <<1, 1>>, <<-1, -1>> >>
    ELSE << <<0, 1>>, <<0, -1>> >>

InImage(p, x, y) == x >= 0 /\ x < Width(p) /\ y >= 0 /\ y < Height(p)

\* C8, as claimed: whenever a selected neighbour offset (x+dx, y+dy) lies
\* outside the image in either coordinate, the neighbour
\* getPixelInGradientDirection returns is the centre pixel (x, y) itself.
C8_FallbackIsCentre ==
    pc = "neighbours" =>
        LET off == BinOffsets(directions[call.y][call.x])
        IN  /\ ~InImage(pixels, call.x + off[1][1], call.y + off[1][2]) =>
                  samples.p = pixels[call.y][call.x]
            /\ ~InImage(pixels, call.x + off[2][1], call.y + off[2][2]) =>
                  samples.q = pixels[call.y][call.x]

\* The position the code falls back to, one coordinate at a time.
PerAxis(p, x, y, o) ==
    << IF x + o[1] >= 0 /\ x + o[1] < Width(p) THEN x + o[1] ELSE x,
       IF y + o[2] >= 0 /\ y + o[2] < Height(p) THEN y + o[2] ELSE y >>

\* C8, amended: each coordinate of a selected neighbour (x+dx, y+dy) that
\* lies outside the image is replaced, on its own, by the centre's: the
\* neighbour returned is the pixel at (x+dx if 0 <= x+dx < W else x,
\* y+dy if 0 <= y+dy < H else y).
C8_FallbackPerAxis ==
    pc = "neighbours" =>
        LET off == BinOffsets(directions[call.y][call.x])
            pAt == PerAxis(pixels, call.x, call.y, off[1])
            qAt == PerAxis(pixels, call.x, call.y, off[2])
        IN  /\ samples.p = pixels[pAt[2]][pAt[1]]
            /\ samples.q = pixels[qAt[2]][qAt[1]]

\* C8's case: a diagonal neighbour that leaves the image through a border
\* row only, answered by a pixel that is not the centre's.
C8_Witness ==
    /\ pc = "neighbours"
    /\ LET off == BinOffsets(directions[call.y][call.x])
       IN  /\ off[1][1] # 0 /\ off[1][2] # 0
           /\ call.x + off[1][1] \in 0..(Width(pixels) - 1)
           /\ call.y + off[1][2] \notin 0..(Height(pixels) - 1)
           /\ samples.p # pixels[call.y][call.x]

\* C9: for every pixel whose two selected neighbours are inside the image,
\* the neighbours are those of its direction bin ([-90,-67.5): (0,-1),(0,+1);
\* [-67.5,-22.5): (+1,-1),(-1,+1); [-22.5,22.5): (+1,0),(-1,0);
\* [22.5,67.5): (+1,+1),(-1,-1); [67.5,90]: (0,+1),(0,-1)), and the output
\* intensity is 0 if either neighbour's intensity is strictly greater than
\* the centre's, otherwise the centre's input intensity (ties are kept).
C9_InteriorRule ==
    pc = "nms" =>
        \A r \in DOMAIN prev : \A c \in DOMAIN prev[r] :
            LET off == BinOffsets(directions[r][c])
                x1 == c + off[1][1]
                y1 == r + off[1][2]
                x2 == c + off[2][1]
                y2 == r + off[2][2]
            IN  (InImage(prev, x1, y1) /\ InImage(prev, x2, y2)) =>
                    pixels[r][c].y =
                        IF prev[y1][x1].y > prev[r][c].y \/ prev[y2][x2].y > prev[r][c].y
                        THEN 0
                        ELSE prev[r][c].y

\* C9's case: an interior pixel of a diagonal bin, non-zero and suppressed,
\* beside one that ties with a neighbour and is kept.
C9_Witness ==
    /\ pc = "nms"
    /\ \E r \in DOMAIN prev : \E c \in DOMAIN prev[r] :
          LET off == BinOffsets(directions[r][c])
          IN  /\ off[1][1] # 0 /\ off[1][2] # 0
              /\ InImage(prev, c + off[1][1], r + off[1][2])
              /\ InImage(prev, c + off[2][1], r + off[2][2])
              /\ prev[r][c].y > 0
              /\ pixels[r][c].y = 0
    /\ \E r \in DOMAIN prev : \E c \in DOMAIN prev[r] :
          LET off == BinOffsets(directions[r][c])
          IN  /\ InImage(prev, c + off[1][1], r + off[1][2])
              /\ InImage(prev, c + off[2][1], r + off[2][2])
              /\ prev[r][c].y > 0
              /\ prev[r + off[1][2]][c + off[1][1]].y = prev[r][c].y
              /\ pixels[r][c].y = prev[r][c].y

\* C10: NMS is idempotent: nonMaximumSuppression applied to its own output,
\* with the same direction field, returns that output pixel for pixel.
C10_NmsIdempotent == pc = "nms2" => pixels = prev

\* C10's case: a first run that suppressed a pixel and kept another, then a
\* second run.
C10_Witness ==
    /\ pc = "nms2"
    /\ \E r \in DOMAIN input : \E c \in DOMAIN input[r] :
          input[r][c].y > 0 /\ prev[r][c].y = 0
    /\ \E r \in DOMAIN input : \E c \in DOMAIN input[r] : prev[r][c].y > 0

\* Whether direction field d has the height and width of image p.
SameDimensions(p, d) == Height(d) = Height(p) /\ Width(d) = Width(p)

\* Whether some value of direction field d lies outside [-90, 90].
SomeDirectionOutside(d) ==
    \E r \in DOMAIN d : \E c \in DOMAIN d[r] : d[r][c] < -900 \/ d[r][c] > 900

\* C22: NMS input validation: nonMaximumSuppression fails (aborts without
\* returning any image) when the direction field's height or width differs
\* from the image's, and when any direction value it reads lies outside
\* [-90, 90]; for inputs that pass both checks it returns an image of the
\* same dimensions as its input.
C22_NmsValidation ==
    pc \in {"nms", "panic"} =>
        IF ~SameDimensions(input, directions) \/ SomeDirectionOutside(directions)
        THEN pc = "panic"
        ELSE pc = "nms" /\ SameDimensions(input, pixels)

\* C22's case: nonMaximumSuppression has failed on a direction field of the
\* image's dimensions because of a value outside [-90, 90].
C22_Witness ==
    /\ pc = "panic"
    /\ SameDimensions(input, directions)
    /\ SomeDirectionOutside(directions)

---------------------------------------------------------------------------
(* The Double-Threshold Classifier and the Hysteresis Linker *)

\* A threshold (float64) is the fraction num / den, den > 0.
Threshold(num, den) == [num |-> num, den |-> den]

\* float64(v) > t and t > float64(v) for a pixel value v, canny.go 377, 379
above(v, t) == v * t.den > t.num

below(v, t) == v * t.den < t.num

\* (a variant of the classifier that leaves the pixels of neither set as
\* they are)
doublethresholdKeepingRest(p, high, low) ==
    LET isStrong(v) == above(v, high)
        isWeak(v) == ~above(v, high) /\ below(v, high) /\ above(v, low)
    IN  [strong |-> { pt \in Points(Height(p), Width(p)) : isStrong(p[pt[2]][pt[1]].y) },
         weak |-> { pt \in Points(Height(p), Width(p)) : isWeak(p[pt[2]][pt[1]].y) },
         pixels |-> p]

\* doublethreshold, canny.go 370-388: the two sets, and the image as the
\* function leaves it (it writes into the slice it was given, line 382)
doublethreshold(p, high, low) ==
    LET isStrong(v) == above(v, high)
        isWeak(v) == ~above(v, high) /\ below(v, high) /\ above(v, low)
    IN  [strong |-> { pt \in Points(Height(p), Width(p)) : isStrong(p[pt[2]][pt[1]].y) },
         weak |-> { pt \in Points(Height(p), Width(p)) : isWeak(p[pt[2]][pt[1]].y) },
         pixels |-> [r \in DOMAIN p |->
                       [c \in DOMAIN p[0] |->
                           IF isStrong(p[r][c].y) \/ isWeak(p[r][c].y) THEN p[r][c]
                           ELSE GrayPixel(0, p[r][c].a)]]]

max(a, b) == IF a > b THEN a ELSE b

min(a, b) == IF a < b THEN a ELSE b

\* getAdjacentPixels, canny.go 347-365
getAdjacentPixels(p, x, y) ==
    LET minX == max(0, x - 1)
        minY == max(0, y - 1)
        maxX == min(Width(p), x + 1)
        maxY == min(Height(p), y + 1)
    IN  { <<j, i>> : j \in minX..(maxX - 1), i \in minY..(maxY - 1) }
            \ { pt \in Points(Height(p), Width(p)) : pt[1] = x \/ pt[2] = y }

\* (a variant of the test that promotes every weak pixel)
hasStrongNeighbourAlways(s, neighbours) == Cardinality(s \cap neighbours) >= 0

\* The test of canny.go 334
hasStrongNeighbour(s, neighbours) == Cardinality(s \cap neighbours) > 0

---------------------------------------------------------------------------
(* doublethreshold and then edgeTracking, as in canny.go 317-318 *)

Thresholds ==
    { <<Threshold(150, 1), Threshold(50, 1)>>,
      <<Threshold(200, 1), Threshold(100, 1)>>,
      <<Threshold(501, 2), Threshold(301, 2)>> }

InitLink ==
    /\ pc = "thresholds"
    /\ DrawImage(input, {0}, {100, 200}, {255})
    /\ pixels = input
    /\ prev = NoImage
    /\ directions = NoImage
    /\ strong = {}
    /\ weak = {}
    /\ weakIter = {}
    /\ samples = <<>>
    /\ \E t \in Thresholds : call = [high |-> t[1], low |-> t[2]]
    /\ conv = "wrap"

\* strong, weak := doublethreshold(pixels, high, low), canny.go 317, and the
\* start of edgeTracking: weakIter := weak.Iterator(), canny.go 328
CallDoublethreshold ==
    /\ pc = "thresholds"
    /\ LET got == doublethreshold(pixels, call.high, call.low)
       IN  /\ strong' = got.strong
           /\ weak' = got.weak
           /\ weakIter' = got.weak
           /\ pixels' = got.pixels
           /\ prev' = got.pixels
    /\ pc' = "thresholded"
    /\ UNCHANGED <<input, directions, samples, call, conv>>

\* (a variant of the loop's turn that moves the strength from the strong
\* neighbours to the weak point)
EdgeTrackingStepMovingStrong ==
    /\ pc \in {"thresholded", "tracking"}
    /\ \E weakPoint \in weakIter :
          LET neighbours == getAdjacentPixels(pixels, weakPoint[1], weakPoint[2])
          IN  /\ strong' = IF hasStrongNeighbour(strong, neighbours)
                           THEN (strong \ neighbours) \cup {weakPoint}
                           ELSE strong
              /\ pixels' = [pixels EXCEPT ![weakPoint[2]][weakPoint[1]].y = 0]
              /\ weakIter' = weakIter \ {weakPoint}
    /\ prev' = pixels'
    /\ pc' = "tracking"
    /\ UNCHANGED <<input, directions, weak, samples, call, conv>>

\* (a variant of the loop's turn that leaves the image alone)
EdgeTrackingStepNoErase ==
    /\ pc \in {"thresholded", "tracking"}
    /\ \E weakPoint \in weakIter :
          LET neighbours == getAdjacentPixels(pixels, weakPoint[1], weakPoint[2])
          IN  /\ strong' = IF hasStrongNeighbour(strong, neighbours)
                           THEN strong \cup {weakPoint}
                           ELSE strong
              /\ weakIter' = weakIter \ {weakPoint}
    /\ pixels' = pixels
    /\ prev' = pixels'
    /\ pc' = "tracking"
    /\ UNCHANGED <<input, directions, weak, samples, call, conv>>

\* (a variant of the loop's turn that blackens a weak pixel only when it is
\* not promoted)
EdgeTrackingStepKeepingPromoted ==
    /\ pc \in {"thresholded", "tracking"}
    /\ \E weakPoint \in weakIter :
          LET neighbours == getAdjacentPixels(pixels, weakPoint[1], weakPoint[2])
              promoted == hasStrongNeighbour(strong, neighbours)
          IN  /\ strong' = IF promoted THEN strong \cup {weakPoint} ELSE strong
              /\ pixels' = IF promoted THEN pixels
                           ELSE [pixels EXCEPT ![weakPoint[2]][weakPoint[1]].y = 0]
              /\ weakIter' = weakIter \ {weakPoint}
    /\ prev' = pixels'
    /\ pc' = "tracking"
    /\ UNCHANGED <<input, directions, weak, samples, call, conv>>

\* One turn of the loop of edgeTracking, canny.go 329-341, for the point the
\* iterator delivers: a Go map is ranged over in no fixed order.
EdgeTrackingStep ==
    /\ pc \in {"thresholded", "tracking"}
    /\ \E weakPoint \in weakIter :
          LET neighbours == getAdjacentPixels(pixels, weakPoint[1], weakPoint[2])
          IN  /\ strong' = IF hasStrongNeighbour(strong, neighbours)
                           THEN strong \cup {weakPoint}
                           ELSE strong
              /\ pixels' = [pixels EXCEPT ![weakPoint[2]][weakPoint[1]].y = 0]
              /\ weakIter' = weakIter \ {weakPoint}
    /\ prev' = pixels'
    /\ pc' = "tracking"
    /\ UNCHANGED <<input, directions, weak, samples, call, conv>>

\* The iterator's channel is closed: edgeTracking returns, canny.go 342.
EdgeTrackingReturn ==
    /\ pc \in {"thresholded", "tracking"}
    /\ weakIter = {}
    /\ pc' = "linked"
    /\ UNCHANGED <<input, prev, pixels, directions, strong, weak, weakIter,
                   samples, call, conv>>

NextLink == CallDoublethreshold \/ EdgeTrackingStep \/ EdgeTrackingReturn

SpecLink == InitLink /\ [][NextLink]_vars

---------------------------------------------------------------------------
(* Properties of the classifier and the linker *)

\* The 8-connected in-bounds neighbours of point pt in image p.
Neighbours8(p, pt) ==
    { n \in Points(Height(p), Width(p)) :
        /\ n # pt
        /\ abs(n[1] - pt[1]) <= 1
        /\ abs(n[2] - pt[2]) <= 1 }

\* The strong set as doublethreshold produced it: edgeTracking adds weak
\* points only, and the two sets start disjoint.
OriginalStrong == strong \ weak

\* C2: after edgeTracking every weak coordinate that has at least one of its
\* 8-connected in-bounds neighbours (left, right, up, down or any diagonal)
\* in the strong set is a member of the strong set.
C2_WeakBesideStrongPromoted ==
    pc = "linked" =>
        \A w \in weak :
            (Neighbours8(pixels, w) \cap OriginalStrong # {}) => w \in strong

C4_ThresholdPartition ==
    pc = "thresholded" =>
        \A pt \in Points(Height(input), Width(input)) :
            LET v == input[pt[2]][pt[1]].y
                isStrong == v * call.high.den > call.high.num
                isWeak == v * call.low.den > call.low.num
                          /\ v * call.high.den <= call.high.num
            IN  /\ pt \in strong <=> isStrong
                /\ pt \in weak <=> isWeak
                /\ pixels[pt[2]][pt[1]].y = IF isStrong \/ isWeak THEN v ELSE 0

\* The coordinates of the weak set are black once edgeTracking has returned.
WeakAreBlack == pc = "linked" => \A w \in weak : pixels[w[2]][w[1]].y = 0

\* A turn of edgeTracking's loop leaves the pixels outside the weak set alone.
OthersUntouched ==
    pc \in {"thresholded", "tracking"} =>
        \A pt \in Points(Height(pixels), Width(pixels)) \ weak :
            pixels[pt[2]][pt[1]] = pixels'[pt[2]][pt[1]]

\* C11: every originally-weak pixel is erased: after edgeTracking every
\* coordinate of the weak set has intensity 0 in the image, whether or not it
\* was promoted to strong, and edgeTracking changes the intensity of no
\* coordinate outside the weak set.
C11_WeakErased == []WeakAreBlack /\ [][OthersUntouched]_vars

\* C11's case: edgeTracking has returned after promoting one weak pixel and
\* passing over another, beside pixels that are in neither set.
C11_Witness ==
    /\ pc = "linked"
    /\ weak \cap strong # {}
    /\ weak \ strong # {}
    /\ \E pt \in Points(Height(pixels), Width(pixels)) \ weak :
          pixels[pt[2]][pt[1]].y > 0

\* From doublethreshold's return on, the strong set holds the strong set
\* doublethreshold produced for the image and thresholds it was given.
HoldsClassifiedStrong ==
    pc \in {"thresholded", "tracking", "linked"} =>
        doublethreshold(input, call.high, call.low).strong \subseteq strong

\* A step of edgeTracking removes nothing from the strong set and adds weak
\* coordinates only.
StrongGrowsByWeak ==
    pc \in {"thresholded", "tracking"} =>
        strong \subseteq strong' /\ (strong' \ strong) \subseteq weak

\* C21: the strong set only grows: at every step of edgeTracking the strong
\* set is a superset of the strong set produced by doublethreshold, every
\* coordinate added to it is a member of the weak set, and no coordinate is
\* ever removed from it.
C21_StrongOnlyGrows == []HoldsClassifiedStrong /\ [][StrongGrowsByWeak]_vars

\* C21's case: edgeTracking has returned with a strong set that holds a
\* promoted weak coordinate beside those doublethreshold produced.
C21_Witness ==
    /\ pc = "linked"
    /\ doublethreshold(input, call.high, call.low).strong # {}
    /\ strong \ doublethreshold(input, call.high, call.low).strong # {}

---------------------------------------------------------------------------
(* CannyEdgeDetect, canny.go 308-321: the stages in the order it calls them *)

\* maxPixelValue, canny.go 685-697
maxPixelValue(p) ==
    LET values == { p[r][c].y : r \in DOMAIN p, c \in DOMAIN p[0] }
    IN  IF values = {} THEN 0
        ELSE CHOOSE m \in values : \A v \in values : v <= m

\* The products ratio * float64(m), m in 0..255, of the ratios used in this
\* module whose float64 result is not the exact product, as <<num, den, m>>:
\* 0.29 * 100 is 28.999999999999996 and 0.29 * 200 is 57.99999999999999. For
\* every other m and for the ratios 0.2, 0.6 and the quarters, a product whose
\* exact value is a whole number is that number.
RoundedDown == { <<29, 100, 100>>, <<29, 100, 200>> }

\* ratio * float64(m), canny.go 315-316, for the ratio <<num, den>>. Pixel
\* values are whole numbers, so a result just below the whole number k
\* compares with every pixel value as k - 1/2 does; a product that is not a
\* whole number stays on its side of every whole number when rounded.
float64Product(ratio, m) ==
    IF <<ratio[1], ratio[2], m>> \in RoundedDown
    THEN Threshold(2 * ratio[1] * m - 1, 2 * ratio[2])
    ELSE Threshold(ratio[1] * m, ratio[2])

\* The pairs <<minRatio, maxRatio>> the detector is run with, each ratio a
\* fraction <<num, den>>. They are quarters, which a float64 holds exactly,
\* so that the products of canny.go 315-316 are exact.
RatioPairs == { << <<1, 4>>, <<3, 4>> >>, << <<1, 2>>, <<1, 2>> >> }

\* v is a flat image with at most two pixels of other intensities.
DrawPair(v, bgs, levels, alphas) ==
    \E h \in 1..MaxSide, w \in 1..MaxSide, bg \in bgs, alpha \in alphas :
        \E S \in SUBSET Points(h, w) :
            /\ Cardinality(S) <= 2
            /\ \E lit \in [S -> levels] : v = MakeImage(h, w, bg, alpha, lit)

\* v is a flat image, or a flat image with one pixel of another intensity.
DrawSpike(v, bgs, levels, alphas) ==
    \E h \in 1..MaxSide, w \in 1..MaxSide, bg \in bgs, alpha \in alphas :
        \E S \in {{}} \cup { {pt} : pt \in Points(h, w) } :
            \E lit \in [S -> levels] : v = MakeImage(h, w, bg, alpha, lit)

Init ==
    /\ pc = "start"
    /\ DrawSpike(input, {0, 100}, {200, 255}, {255, 128})
    /\ pixels = input
    /\ prev = NoImage
    /\ directions = NoImage
    /\ strong = {}
    /\ weak = {}
    /\ weakIter = {}
    /\ samples = <<>>
    /\ \E b \in BOOLEAN, ratios \in RatioPairs :
          call = [blur |-> b, kernelSize |-> 5,
                  minRatio |-> ratios[1], maxRatio |-> ratios[2],
                  high |-> Threshold(0, 1), low |-> Threshold(0, 1)]
    /\ conv \in Conversions

\* max := maxPixelValue(pixels); high := maxRatio*float64(max);
\* low := minRatio*float64(max), canny.go 314-316
ComputeThresholds ==
    /\ pc = "nms"
    /\ LET m == maxPixelValue(pixels)
       IN  call' = [call EXCEPT
                       !.high = float64Product(call.maxRatio, m),
                       !.low = float64Product(call.minRatio, m)]
    /\ pc' = "thresholds"
    /\ UNCHANGED <<input, prev, pixels, directions, strong, weak, weakIter,
                   samples, conv>>

Next ==
    \/ CallGaussianBlur
    \/ CallSobel
    \/ CallNonMaximumSuppression
    \/ ComputeThresholds
    \/ CallDoublethreshold
    \/ EdgeTrackingStep
    \/ EdgeTrackingReturn

Spec == Init /\ [][Next]_vars

\* C15: gradient of a uniform image: for every image of height >= 1 and
\* width >= 1 whose pixels all have the same intensity, sobel returns
\* magnitude 0 and direction 0 at every pixel.
C15_UniformGradient ==
    (pc \in {"sobel", "panic"} /\ \E c \in 0..255 : IsFlat(prev, c)) =>
        /\ pc = "sobel"
        /\ \A r \in DOMAIN pixels : \A x \in DOMAIN pixels[r] :
              pixels[r][x].y = 0 /\ directions[r][x] = 0

---------------------------------------------------------------------------
(* The thresholds and the classification, canny.go 314-317, on their own *)

\* Pairs <<minRatio, maxRatio>> with minRatio < maxRatio, both inside (0, 1).
BoundaryRatioPairs == { << <<1, 2>>, <<3, 5>> >>, << <<29, 100>>, <<3, 5>> >> }

InitThreshold ==
    /\ pc = "nms"
    /\ DrawImage(input, {0}, {29, 50, 61, 100}, {255})
    /\ pixels = input
    /\ prev = NoImage
    /\ directions = NoImage
    /\ strong = {}
    /\ weak = {}
    /\ weakIter = {}
    /\ samples = <<>>
    /\ \E ratios \in BoundaryRatioPairs :
          call = [minRatio |-> ratios[1], maxRatio |-> ratios[2],
                  high |-> Threshold(0, 1), low |-> Threshold(0, 1)]
    /\ conv = "wrap"

NextThreshold == ComputeThresholds \/ CallDoublethreshold

SpecThreshold == InitThreshold /\ [][NextThreshold]_vars

---------------------------------------------------------------------------
(* The thresholds, the classification and the linking, canny.go 314-320, on
   their own: the image given is the one non-maximum suppression returned *)

InitHysteresis ==
    /\ pc = "nms"
    /\ DrawPair(input, {0, 10}, {55, 100}, {255})
    /\ pixels = input
    /\ prev = NoImage
    /\ directions = NoImage
    /\ strong = {}
    /\ weak = {}
    /\ weakIter = {}
    /\ samples = <<>>
    /\ \E ratios \in BoundaryRatioPairs :
          call = [minRatio |-> ratios[1], maxRatio |-> ratios[2],
                  high |-> Threshold(0, 1), low |-> Threshold(0, 1)]
    /\ conv = "wrap"

NextHysteresis ==
    \/ ComputeThresholds
    \/ CallDoublethreshold
    \/ EdgeTrackingStep
    \/ EdgeTrackingReturn

SpecHysteresis == InitHysteresis /\ [][NextHysteresis]_vars

\* Right after doublethreshold no point is in both sets and every pixel
\* outside both is 0.
ClassifiedApart ==
    pc = "thresholded" =>
        /\ strong \cap weak = {}
        /\ \A pt \in Points(Height(pixels), Width(pixels)) \ (strong \cup weak) :
              pixels[pt[2]][pt[1]].y = 0

\* In the image returned, the pixels that are not 0 are those whose
\* intensity in the image given was above high = maxRatio * max, and each
\* of them has the intensity it had.
ReturnedAboveHigh ==
    pc = "linked" =>
        /\ call.high = float64Product(call.maxRatio, maxPixelValue(input))
        /\ \A r \in DOMAIN pixels : \A c \in DOMAIN pixels[r] :
              /\ pixels[r][c].y # 0 <=> above(input[r][c].y, call.high)
              /\ pixels[r][c].y # 0 => pixels[r][c].y = input[r][c].y

\* C24: shape of the final image: after doublethreshold the strong and weak
\* sets are disjoint and every pixel outside both is 0; consequently in the
\* image returned by CannyEdgeDetect a pixel is non-zero if and only if its
\* post-NMS intensity was strictly greater than high = maxRatio * max, and
\* every such pixel keeps exactly its post-NMS intensity.
C24_FinalImageShape == ClassifiedApart /\ ReturnedAboveHigh

\* C24's case: the detector has returned an image that keeps a pixel and
\* has lost a weak pixel that was promoted to strong and a pixel that was
\* in neither set.
C24_Witness ==
    /\ pc = "linked"
    /\ \E r \in DOMAIN pixels : \E c \in DOMAIN pixels[r] : pixels[r][c].y # 0
    /\ \E pt \in strong \cap weak :
          pixels[pt[2]][pt[1]].y = 0 /\ input[pt[2]][pt[1]].y # 0
    /\ \E pt \in Points(Height(input), Width(input)) \ (strong \cup weak) :
          input[pt[2]][pt[1]].y # 0

---------------------------------------------------------------------------
(* Properties of the whole detector *)

\* The positions at which a stage, or the detector itself, has just returned
\* its image.
StageOutputs == {"blurred", "sobel", "nms", "linked"}

\* C6, as claimed: opacity is a pass-through attribute: the opacity of every
\* pixel in the output of each stage (blur, gradient, NMS) and of the whole
\* pipeline equals the opacity of the same pixel in the input.
C6_OpacityPassThrough ==
    pc \in StageOutputs =>
        \A r \in DOMAIN pixels : \A x \in DOMAIN pixels[r] :
            pixels[r][x].a = input[r][x].a

\* C6, amended: opacity is not passed through: the opacity of every pixel in
\* the output of each stage (blur, gradient, NMS) and of the whole pipeline
\* is 255, whatever the opacity of the same pixel in the input.
C6_OpacityOpaque ==
    pc \in StageOutputs =>
        \A r \in DOMAIN pixels : \A x \in DOMAIN pixels[r] :
            pixels[r][x].a = 255

\* C6's case: the detector has returned, with the blur, for an input whose
\* pixels are not opaque.
C6_Witness ==
    /\ pc = "linked"
    /\ call.blur
    /\ \E r \in DOMAIN input : \E x \in DOMAIN input[r] : input[r][x].a # 255

\* The value v itself. (TLC evaluates a function expression anew at every
\* application; the comparison makes it build the function once.)
Built(v) == IF v = v THEN v ELSE v

\* The image CannyEdgeDetect hands back for image p and its three parameters
\* when every stage returns, written stage by stage as a function of them.
\* The last stage leaves the classified image with the weak coordinates black.
AfterHysteresis(sets) ==
    [r \in DOMAIN sets.pixels |->
        [c \in DOMAIN sets.pixels[r] |->
            IF <<c, r>> \in sets.weak THEN GrayPixel(0, sets.pixels[r][c].a)
            ELSE sets.pixels[r][c]]]

AfterMax(thinned, m, minRatio, maxRatio) ==
    AfterHysteresis(doublethreshold(thinned,
                                    float64Product(maxRatio, m),
                                    float64Product(minRatio, m)))

AfterNMS(thinned, minRatio, maxRatio) ==
    AfterMax(Built(thinned), maxPixelValue(Built(thinned)), minRatio, maxRatio)

AfterSobel(gradient, minRatio, maxRatio) ==
    AfterNMS(nonMaximumSuppression(Built(gradient.result),
                                   Built(gradient.directions)),
             minRatio, maxRatio)

AfterBlur(blurred, minRatio, maxRatio) ==
    AfterSobel(sobel(Built(blurred)), minRatio, maxRatio)

EdgeImage(p, blur, minRatio, maxRatio) ==
    AfterBlur(IF blur THEN gaussianBlur(p, 5) ELSE p, minRatio, maxRatio)

\* C12: pipeline determinism: for every input image and every (blur,
\* minRatio, maxRatio) the image CannyEdgeDetect returns is one function of
\* them, the same in every run, whatever order the weak set is iterated in
\* during hysteresis.
C12_Deterministic ==
    pc = "linked" =>
        pixels = EdgeImage(input, call.blur, call.minRatio, call.maxRatio)

\* C12's case: the detector has returned after a hysteresis pass that had
\* several weak pixels to order and promoted one of them.
C12_Witness ==
    /\ pc = "linked"
    /\ Cardinality(weak) >= 2
    /\ weak \cap strong # {}
    /\ weak \ strong # {}

\* The steps from one position of CannyEdgeDetect to the next: blur,
\* gradient, NMS, double threshold (its two thresholds, then the
\* classification) and hysteresis (its turns, then its return), the blur
\* left out at most.
StageSteps ==
    { <<"start", "blurred">>, <<"start", "sobel">>, <<"blurred", "sobel">>,
      <<"sobel", "nms">>, <<"nms", "thresholds">>,
      <<"thresholds", "thresholded">>, <<"thresholded", "tracking">>,
      <<"tracking", "tracking">>, <<"thresholded", "linked">>,
      <<"tracking", "linked">> }

\* A step of the detector is the next stage's, that stage is given the image
\* its predecessor produced, and the blur is left out exactly when the flag
\* is false, the gradient stage then being given the input image.
InStageOrder ==
    /\ pc' # "panic" => <<pc, pc'>> \in StageSteps
    /\ pc' = "blurred" => call.blur /\ prev' = input
    /\ pc' = "sobel" => prev' = pixels
    /\ (pc = "start" /\ pc' = "sobel") => ~call.blur /\ prev' = input
    /\ pc' = "nms" => prev' = pixels
    /\ pc' = "thresholds" => pixels' = pixels
    /\ pc' = "thresholded" =>
          pixels' = doublethreshold(pixels, call.high, call.low).pixels
    /\ pc' = "tracking" =>
          \A pt \in Points(Height(pixels), Width(pixels)) \ weak :
              pixels[pt[2]][pt[1]] = pixels'[pt[2]][pt[1]]
    /\ pc' = "linked" => pixels' = pixels

\* C18: stage order: every run of CannyEdgeDetect executes the stages in the
\* strict order blur, gradient, NMS, double threshold, hysteresis, each
\* exactly once and each consuming the image produced by its immediate
\* predecessor; when the blur flag is false the blur stage is skipped and
\* the gradient stage receives the input image unmodified.
C18_StageOrder == [][InStageOrder]_vars

\* C18's case: a run with the blur has gone through every stage and returned
\* after a hysteresis pass over a weak set that is not empty.
C18_Witness == pc = "linked" /\ call.blur /\ weak # {}

\* C19: the pipeline handles every well-formed image: for every rectangular
\* image with height >= 1 and width >= 1 (1x1, 1xN, 2x2 and any image
\* narrower or shorter than 3 pixels included), gaussianBlur with kernel size
\* 5 and sobel each complete without an out-of-range pixel access and return
\* an image with the same height and width as the input.
C19_EveryImageHandled ==
    /\ pc # "panic"
    /\ pc \in {"blurred", "sobel"} =>
          Height(pixels) = Height(input) /\ Width(pixels) = Width(input)

\* The step leaves the image it was given as it was: prev is that image
\* after the call, pixels the same image before it.
GivenImageKept == prev' = pixels

\* C20, as claimed: inputs are not mutated before hysteresis: each of
\* gaussianBlur, sobel, nonMaximumSuppression and doublethreshold leaves
\* every pixel of the image it was given unchanged.
C20_NoStageWritesItsInput ==
    [][pc' \in {"blurred", "sobel", "nms", "thresholded"} => GivenImageKept]_vars

\* The step of doublethreshold: the image it was given comes back with the
\* pixels of neither set black and the others as they were.
ClassifiedInPlace ==
    \A pt \in Points(Height(pixels), Width(pixels)) :
        prev'[pt[2]][pt[1]] =
            IF pt \in strong' \cup weak' THEN pixels[pt[2]][pt[1]]
            ELSE GrayPixel(0, pixels[pt[2]][pt[1]].a)

\* What each stage does to the image it was given.
WritesOfStages ==
    /\ pc' \in {"blurred", "sobel", "nms"} => GivenImageKept
    /\ pc' = "thresholded" => ClassifiedInPlace /\ pixels' = prev'
    /\ pc' = "tracking" => pixels' = prev'

\* C20, amended: each of gaussianBlur, sobel and nonMaximumSuppression
\* leaves every pixel of the image it was given unchanged; doublethreshold
\* and the Hysteresis Linker write into the image they received:
\* doublethreshold blackens in it every pixel it puts in neither set, the
\* linker every weak pixel.
C20_OnlyClassifierAndLinkerWrite == [][WritesOfStages]_vars

\* The intensity non-maximum suppression leaves at point pt of the gradient
\* image and direction field in gradient.
ThinnedAt(gradient, pt) ==
    nonMaximumSuppression(Built(gradient.result),
                          Built(gradient.directions))[pt[2]][pt[1]].y

\* C20's case: doublethreshold has returned and has blackened, in the image
\* it was given, a pixel that non-maximum suppression had kept.
C20_Witness ==
    /\ pc = "thresholded"
    /\ \E pt \in Points(Height(pixels), Width(pixels)) \ (strong \cup weak) :
          /\ prev[pt[2]][pt[1]].y = 0
          /\ ThinnedAt(sobel(IF call.blur THEN gaussianBlur(input, 5) ELSE input),
                       pt) > 0

\* sobel and then nonMaximumSuppression on sobel's two results, as in
\* canny.go 312-313
InitGradient ==
    /\ pc = "start"
    /\ DrawPair(input, {0}, {100, 255}, {255})
    /\ pixels = input
    /\ prev = NoImage
    /\ directions = NoImage
    /\ strong = {}
    /\ weak = {}
    /\ weakIter = {}
    /\ samples = <<>>
    /\ call = [blur |-> FALSE]
    /\ conv \in Conversions

NextGradient == CallSobel \/ CallNonMaximumSuppression

SpecGradient == InitGradient /\ [][NextGradient]_vars

\* The direction bins of getPixelInGradientDirection that hold direction d,
\* numbered 1 to 5 from [-90, -67.5) to [67.5, 90].
BinsOf(d) ==
    { i \in 1..5 :
        \/ i = 1 /\ d >= -900 /\ d < -675
        \/ i = 2 /\ d >= -675 /\ d < -225
        \/ i = 3 /\ d >= -225 /\ d < 225
        \/ i = 4 /\ d >= 225 /\ d < 675
        \/ i = 5 /\ d >= 675 /\ d <= 900 }

\* The directions sobel has just returned: 0 where Gx or Gy is 0, strictly
\* inside (-90, 90) elsewhere, and each in exactly one bin.
SobelDirectionsInRange ==
    pc = "sobel" =>
        \A r \in DOMAIN prev : \A c \in DOMAIN prev[r] :
            LET pane == getSorroundingPixelMatrix(prev, r, c, 3)
                gx == convolve(pane, SOBEL_X)
                gy == convolve(pane, SOBEL_Y)
                d == directions[r][c]
            IN  /\ (gx = 0 \/ gy = 0) => d = 0
                /\ d > -900 /\ d < 900
                /\ Cardinality(BinsOf(d)) = 1

\* The step after sobel's return is not a failure.
NoFailureAfterSobel == pc = "sobel" => pc' # "panic"

\* C23: gradient output always satisfies the NMS precondition: for every
\* input image, every direction value produced by sobel is 0 when Gx = 0 or
\* Gy = 0 and otherwise lies strictly between -90 and 90, so it falls in
\* exactly one of the five NMS bins and the out-of-range failure of
\* getPixelInGradientDirection is unreachable inside CannyEdgeDetect.
C23_GradientFitsNMS == []SobelDirectionsInRange /\ [][NoFailureAfterSobel]_vars

\* C23's case: non-maximum suppression has returned for the direction field
\* sobel produced, which holds a 0 beside a direction of an outermost bin.
C23_Witness ==
    /\ pc = "nms"
    /\ \E r \in DOMAIN directions : \E c \in DOMAIN directions[r] :
          directions[r][c] = 0
    /\ \E r \in DOMAIN directions : \E c \in DOMAIN directions[r] :
          BinsOf(directions[r][c]) \in {{1}, {5}}

---------------------------------------------------------------------------
(* main, main.go 121-153: the flags, their checks and the call of the
   detector *)

\* isValidRatioValue, main.go 239-245, for the ratio x = <<num, den>>, den > 0
isValidRatioValue(x) == x[1] >= 0 /\ x[1] <= x[2]

\* The values given to -min and -max.
RatioValues == { <<-1, 4>>, <<0, 1>>, <<1, 4>>, <<3, 4>>, <<1, 1>>, <<5, 4>> }

InitMain ==
    /\ pc = "main"
    /\ DrawSpike(input, {0}, {255}, {255})
    /\ pixels = NoImage
    /\ prev = NoImage
    /\ directions = NoImage
    /\ strong = {}
    /\ weak = {}
    /\ weakIter = {}
    /\ samples = <<>>
    /\ \E file \in {"", "in.png"}, b \in BOOLEAN,
          lo \in RatioValues, hi \in RatioValues :
          call = [inputFile |-> file, blur |-> b, kernelSize |-> 5,
                  minRatio |-> lo, maxRatio |-> hi,
                  high |-> Threshold(0, 1), low |-> Threshold(0, 1)]
    /\ conv = "wrap"

\* main up to its call of CannyEdgeDetect, main.go 121-146: it returns when
\* no input file is named or a ratio is not valid, and otherwise opens the
\* image and enters the detector.
CallMain ==
    /\ pc = "main"
    /\ IF call.inputFile = ""
       THEN pc' = "exit" /\ pixels' = pixels
       ELSE IF ~isValidRatioValue(call.minRatio) \/ ~isValidRatioValue(call.maxRatio)
       THEN pc' = "exit" /\ pixels' = pixels
       ELSE pc' = "start" /\ pixels' = input
    /\ UNCHANGED <<input, prev, directions, strong, weak, weakIter, samples,
                   call, conv>>

NextMain == CallMain \/ Next

SpecMain == InitMain /\ [][NextMain]_vars

\* Whether ratio a is smaller than ratio b.
less(a, b) == a[1] * b[2] < b[1] * a[2]

\* C13: invalid threshold ratios never reach the pipeline: main calls
\* CannyEdgeDetect only if minRatio and maxRatio both lie strictly inside
\* (0, 1) and minRatio < maxRatio.
C13_InvalidRatiosRejected ==
    pc \notin {"main", "exit"} =>
        /\ less(<<0, 1>>, call.minRatio) /\ less(call.minRatio, <<1, 1>>)
        /\ less(<<0, 1>>, call.maxRatio) /\ less(call.maxRatio, <<1, 1>>)
        /\ less(call.minRatio, call.maxRatio)

---------------------------------------------------------------------------
(* The detector on 5x5 images that are black but for one white pixel, with
   the default ratios 0.2 and 0.6 *)

\* The 5x5 image that is 0 everywhere but 255 at point pt.
SpikeAt(pt) == MakeImage(5, 5, 0, 255, [q \in {pt} |-> 255])

InitScenario ==
    /\ pc = "start"
    /\ \E pt \in Points(5, 5) : input = SpikeAt(pt)
    /\ pixels = input
    /\ prev = NoImage
    /\ directions = NoImage
    /\ strong = {}
    /\ weak = {}
    /\ weakIter = {}
    /\ samples = <<>>
    /\ \E b \in BOOLEAN :
          call = [blur |-> b, kernelSize |-> 5,
                  minRatio |-> <<1, 5>>, maxRatio |-> <<3, 5>>,
                  high |-> Threshold(0, 1), low |-> Threshold(0, 1)]
    /\ conv \in Conversions

SpecScenario == InitScenario /\ [][Next]_vars

\* The run of the scenario: the spike at (2,2), no blur.
InScenario == input = SpikeAt(<<2, 2>>) /\ ~call.blur

\* (2,2) and its 8 neighbours.
Around22 == Neighbours8(input, <<2, 2>>) \cup {<<2, 2>>}

\* C16: end-to-end scenario: for the 5x5 all-zero image with the single
\* pixel (2,2) set to 255, run without blur with minRatio = 0.2 and
\* maxRatio = 0.6, the gradient magnitude at each of the 8 neighbours of
\* (2,2) is non-zero, the strong set contains (2,2) or at least one of its 8
\* neighbours, and every pixel that is not (2,2) or one of its 8 neighbours
\* is 0 in the final image.
C16_SpikeScenario ==
    InScenario =>
        /\ pc = "sobel" =>
              \A n \in Neighbours8(input, <<2, 2>>) : pixels[n[2]][n[1]].y > 0
        /\ pc = "linked" =>
              /\ strong \cap Around22 # {}
              /\ \A pt \in Points(5, 5) \ Around22 : pixels[pt[2]][pt[1]].y = 0

\* C16's case: the scenario's run has returned.
C16_Witness == InScenario /\ pc = "linked" /\ strong # {}

===========================================================================
